---- MODULE Spec2Model ----
(***************************************************************************)
(* Model of rtplivelib's audio encoder (src/codec/audioencoder.cpp):       *)
(* AudioEncoderPrivateData (codec session, staging frame, encode driver)   *)
(* and AudioEncoder (worker loop over the input queue).                    *)
(***************************************************************************)
EXTENDS Integers, Sequences, FiniteSets, TLC

\* ---------------------------------------------------------------- bounds
NumFormats == 3          \* distinct core::Format values that frames carry
MaxCalls   == 3          \* encode() calls made directly on the driver
MaxPush    == 2          \* frames the producer pushes
MaxRedirects == 1        \* set_input_queue calls before the destructor

\* ------------------------------------------------------ program constants
NoPacket            == -1     \* packet == nullptr (the flush signal)
DefaultFormat       == 0      \* the default-constructed core::Format
AV_SAMPLE_FMT_S16   == 1
AV_CH_LAYOUT_STEREO == 3
AAC_FRAME_SIZE      == 1024   \* encoder_ctx->frame_size once the codec is open
AV_CODEC_ID_AAC     == 86018  \* encoder->id of the resolved codec

Formats == 0 .. (NumFormats - 1)
Queues  == {1, 2}             \* the upstream queues an owner can attach
PushFormats == {0, 1}         \* the formats the upstream producer delivers

\* AVCodecContext * encoder_ctx: the null pointer, or the fields the code uses
NullCtx == [allocated |-> FALSE, opened |-> FALSE, frame_size |-> 0,
            sample_fmt |-> -1, channel_layout |-> 0]
\* AVFrame * encode_frame: the null pointer, or the fields the code assigns
NullFrame == [allocated |-> FALSE, nb_samples |-> 0, format |-> -1,
              channel_layout |-> 0]

VARIABLES
    encoder,           \* AVCodec * encoder: "null" or "libfdk_aac"
    encoder_ctx,       \* AVCodecContext * encoder_ctx
    format,            \* core::Format format (the recorded format)
    encode_frame,      \* AVFrame * encode_frame (the staging frame)
    reassignment,      \* bool reassignment
    trace,             \* observable events: calls made on the codec, the
                       \* diagnostics sink and the submission step, in order
    codec_registered,  \* whether libavcodec was built with libfdk_aac
    destroyed,         \* ~AudioEncoderPrivateData has run
    _queue,            \* Queue * _queue: 0 (nullptr) or a queue
    qdata,             \* the frames (their formats) waiting in each queue
    _mutex,            \* std::mutex _mutex: "none" or its holder
    exit_flag,         \* the worker was told to stop
    wpc,               \* where the worker thread is
    q_reg,             \* the value of _queue the worker last loaded
    pack,              \* auto pack in on_thread_run
    mpc,               \* where the owning thread is
    m_arg,             \* the argument of the set_input_queue in progress
    in_dtor,           \* "no", or how ~AudioEncoder found the worker when it
                       \* was invoked: "running" (RUNNING, queue not empty)
                       \* or "other"
    build_reloads,     \* the build loads _queue again for each dereference
    pushes,            \* frames the producer has pushed
    redirects          \* set_input_queue calls the owner has made

dvars == <<encoder, encoder_ctx, format, encode_frame, reassignment, trace>>
tvars == <<_queue, qdata, _mutex, exit_flag, wpc, q_reg, pack, mpc, m_arg,
           in_dtor, build_reloads, pushes, redirects>>
vars  == <<encoder, encoder_ctx, format, encode_frame, reassignment, trace,
           codec_registered, destroyed, _queue, qdata, _mutex, exit_flag, wpc,
           q_reg, pack, mpc, m_arg, in_dtor, build_reloads, pushes, redirects>>

\* the private data as one value, as the member functions see it
PrivateData == [encoder |-> encoder, encoder_ctx |-> encoder_ctx,
                format |-> format, encode_frame |-> encode_frame,
                reassignment |-> reassignment, trace |-> trace]

Ev(e, a) == [e |-> e, a |-> a]
Log(s, e, a) == [s EXCEPT !.trace = Append(@, Ev(e, a))]

\* outcomes of the fallible library calls made during one encode() call
Oracles == [find_ok : {codec_registered}, ctx_ok : BOOLEAN, open_ok : BOOLEAN,
            flush_frame_ok : BOOLEAN, frame_ok : BOOLEAN]

\* ------------------------------------------------ AudioEncoderPrivateData

\* alloc_encode_frame, but returning whether the staging frame exists
alloc_encode_frame_returns_allocated(s, o) ==
    LET s1 == IF ~s.encode_frame.allocated
              THEN Log([s EXCEPT !.encode_frame.allocated = o.frame_ok],
                       "av_frame_alloc", IF o.frame_ok THEN 1 ELSE 0)
              ELSE s
    IN IF s1.encode_frame.allocated /\ s1.reassignment
       THEN [st |-> [s1 EXCEPT
                       !.encode_frame.nb_samples = s1.encoder_ctx.frame_size,
                       !.encode_frame.format = s1.encoder_ctx.sample_fmt,
                       !.encode_frame.channel_layout =
                                          s1.encoder_ctx.channel_layout,
                       !.reassignment = FALSE],
             ret |-> TRUE]
       ELSE [st |-> s1, ret |-> s1.encode_frame.allocated]

\* bool alloc_encode_frame(): [st, ret]
alloc_encode_frame(s, o) ==
    LET s1 == IF ~s.encode_frame.allocated
              THEN Log([s EXCEPT !.encode_frame.allocated = o.frame_ok],
                       "av_frame_alloc", IF o.frame_ok THEN 1 ELSE 0)
              ELSE s
    IN IF s1.encode_frame.allocated /\ s1.reassignment
       THEN [st |-> [s1 EXCEPT
                       !.encode_frame.nb_samples = s1.encoder_ctx.frame_size,
                       !.encode_frame.format = s1.encoder_ctx.sample_fmt,
                       !.encode_frame.channel_layout =
                                          s1.encoder_ctx.channel_layout,
                       !.reassignment = FALSE],
             ret |-> TRUE]
       ELSE [st |-> s1, ret |-> FALSE]

\* void _set_encoder_param(format): fixed parameters, format unused
_set_encoder_param(s, fmt) ==
    [s EXCEPT !.encoder_ctx.sample_fmt = AV_SAMPLE_FMT_S16,
              !.encoder_ctx.channel_layout = AV_CH_LAYOUT_STEREO]

\* _init_encoder, but a codec that is not found is not reported
_init_encoder_unreported(s, fmt, o) ==
    LET s1 == Log([s EXCEPT !.encoder = IF o.find_ok THEN "libfdk_aac"
                                                     ELSE "null"],
                  "avcodec_find_encoder_by_name", IF o.find_ok THEN 1 ELSE 0)
    IN IF s1.encoder = "null"
       THEN [st |-> s1, ret |-> FALSE]
       ELSE LET s2 == IF s1.encoder_ctx.allocated
                      THEN Log([s1 EXCEPT !.encoder_ctx = NullCtx],
                               "avcodec_free_context", 0)
                      ELSE s1
                s3 == Log([s2 EXCEPT !.encoder_ctx =
                              [NullCtx EXCEPT !.allocated = o.ctx_ok]],
                          "avcodec_alloc_context3", IF o.ctx_ok THEN 1 ELSE 0)
            IN IF ~s3.encoder_ctx.allocated
               THEN [st |-> Log(s3, "WARNING Codec_codec_context_alloc_failed",
                                0),
                     ret |-> FALSE]
               ELSE [st |-> Log(_set_encoder_param(s3, fmt),
                                "INFO Codec_encoder_init_success", 0),
                     ret |-> TRUE]

\* bool _init_encoder(name, format): [st, ret]
_init_encoder(s, fmt, o) ==
    LET s1 == Log([s EXCEPT !.encoder = IF o.find_ok THEN "libfdk_aac"
                                                     ELSE "null"],
                  "avcodec_find_encoder_by_name", IF o.find_ok THEN 1 ELSE 0)
    IN IF s1.encoder = "null"
       THEN [st |-> Log(s1, "WARNING Codec_encoder_not_found", 0),
             ret |-> FALSE]
       ELSE LET s2 == IF s1.encoder_ctx.allocated
                      THEN Log([s1 EXCEPT !.encoder_ctx = NullCtx],
                               "avcodec_free_context", 0)
                      ELSE s1
                s3 == Log([s2 EXCEPT !.encoder_ctx =
                              [NullCtx EXCEPT !.allocated = o.ctx_ok]],
                          "avcodec_alloc_context3", IF o.ctx_ok THEN 1 ELSE 0)
            IN IF ~s3.encoder_ctx.allocated
               THEN [st |-> Log(s3, "WARNING Codec_codec_context_alloc_failed",
                                0),
                     ret |-> FALSE]
               ELSE [st |-> Log(_set_encoder_param(s3, fmt),
                                "INFO Codec_encoder_init_success", 0),
                     ret |-> TRUE]

RECURSIVE encode(_, _, _)

\* close_ctx, but the context is not freed
close_ctx_leaks(s, o) ==
    IF ~s.encoder_ctx.allocated
    THEN s
    ELSE encode(s, NoPacket, [o EXCEPT !.frame_ok = o.flush_frame_ok])

\* void close_ctx()
close_ctx(s, o) ==
    IF ~s.encoder_ctx.allocated
    THEN s
    ELSE LET s1 == encode(s, NoPacket, [o EXCEPT !.frame_ok = o.flush_frame_ok])
         IN Log([s1 EXCEPT !.encoder_ctx = NullCtx], "avcodec_free_context", 0)

\* what open_ctx does when it does not reuse the session (lines 133-151)
open_ctx_reopen(s, packet, o, record) ==
    LET i == _init_encoder(close_ctx(s, o), packet, o)
    IN IF ~i.ret
       THEN [st |-> i.st, ret |-> FALSE]
       ELSE IF ~o.open_ok
            THEN [st |-> Log(Log(Log(i.st, "avcodec_open2", 0),
                                 "WARNING Codec_codec_open_failed", 0),
                             "WARNING FFMPEG", 0),
                  ret |-> FALSE]
            ELSE [st |-> [Log(i.st, "avcodec_open2", 1) EXCEPT
                            !.encoder_ctx.opened = TRUE,
                            !.encoder_ctx.frame_size = AAC_FRAME_SIZE,
                            !.format = IF record THEN packet ELSE @,
                            !.reassignment = TRUE],
                  ret |-> TRUE]

\* open_ctx, but the format is not compared: every frame reopens the session
open_ctx_always_reopens(s, packet, o) == open_ctx_reopen(s, packet, o, TRUE)

\* open_ctx, but the accepted format is not recorded
open_ctx_format_not_recorded(s, packet, o) ==
    IF s.encoder_ctx.allocated /\ s.format = packet
    THEN [st |-> s, ret |-> TRUE]
    ELSE open_ctx_reopen(s, packet, o, FALSE)

\* open_ctx, but the new context is allocated before the old one is released
open_ctx_acquire_first(s, packet, o) ==
    IF s.encoder_ctx.allocated /\ s.format = packet
    THEN [st |-> s, ret |-> TRUE]
    ELSE LET n == _init_encoder([s EXCEPT !.encoder_ctx = NullCtx], packet, o)
             i == IF s.encoder_ctx.allocated
                  THEN [n EXCEPT !.st = Log(n.st, "avcodec_free_context", 0)]
                  ELSE n
         IN IF ~i.ret
            THEN [st |-> i.st, ret |-> FALSE]
            ELSE IF ~o.open_ok
                 THEN [st |-> Log(Log(Log(i.st, "avcodec_open2", 0),
                                      "WARNING Codec_codec_open_failed", 0),
                                  "WARNING FFMPEG", 0),
                       ret |-> FALSE]
                 ELSE [st |-> [Log(i.st, "avcodec_open2", 1) EXCEPT
                                 !.encoder_ctx.opened = TRUE,
                                 !.encoder_ctx.frame_size = AAC_FRAME_SIZE,
                                 !.format = packet,
                                 !.reassignment = TRUE],
                       ret |-> TRUE]

\* bool open_ctx(packet): [st, ret]; packet is the frame's format
open_ctx(s, packet, o) ==
    IF s.encoder_ctx.allocated /\ s.format = packet
    THEN [st |-> s, ret |-> TRUE]
    ELSE LET i == _init_encoder(close_ctx(s, o), packet, o)
         IN IF ~i.ret
            THEN [st |-> i.st, ret |-> FALSE]
            ELSE IF ~o.open_ok
                 THEN [st |-> Log(Log(Log(i.st, "avcodec_open2", 0),
                                      "WARNING Codec_codec_open_failed", 0),
                                  "WARNING FFMPEG", 0),
                       ret |-> FALSE]
                 ELSE [st |-> [Log(i.st, "avcodec_open2", 1) EXCEPT
                                 !.encoder_ctx.opened = TRUE,
                                 !.encoder_ctx.frame_size = AAC_FRAME_SIZE,
                                 !.format = packet,
                                 !.reassignment = TRUE],
                       ret |-> TRUE]

\* encode, but the flush does not test the handle
encode_flush_untested(s, packet, o) ==
    LET r == IF packet # NoPacket
             THEN open_ctx(s, packet, o)
             ELSE [st |-> s, ret |-> TRUE]
    IN IF ~r.ret
       THEN r.st
       ELSE LET f == alloc_encode_frame(r.st, o)
            IN IF ~f.ret
               THEN f.st
               ELSE Log(f.st, "submit", packet)

\* void encode(packet): packet is NoPacket (nullptr) or the frame's format
encode(s, packet, o) ==
    LET r == IF packet # NoPacket
             THEN open_ctx(s, packet, o)
             ELSE [st |-> s, ret |-> s.encoder_ctx.allocated]
    IN IF ~r.ret
       THEN r.st
       ELSE LET f == alloc_encode_frame(r.st, o)
            IN IF ~f.ret
               THEN f.st
               ELSE Log(f.st, "submit", packet)

\* ~AudioEncoderPrivateData()
DtorPrivateData(s, o) ==
    LET s1 == close_ctx(s, o)
    IN IF s1.encode_frame.allocated
       THEN Log([s1 EXCEPT !.encode_frame = NullFrame], "av_frame_free", 0)
       ELSE s1

\* get_encoder_id, but reporting only a session that is open
get_encoder_id_of_open_session ==
    IF ~encoder_ctx.opened THEN 0 ELSE AV_CODEC_ID_AAC

\* int AudioEncoder::get_encoder_id()
get_encoder_id == IF encoder = "null" THEN 0 ELSE AV_CODEC_ID_AAC

\* --------------------------------------------------------------- actions
Store(s) ==
    /\ encoder' = s.encoder
    /\ encoder_ctx' = s.encoder_ctx
    /\ format' = s.format
    /\ encode_frame' = s.encode_frame
    /\ reassignment' = s.reassignment
    /\ trace' = s.trace

Calls(t) == SelectSeq(t, LAMBDA ev : ev.e = "call")

\* AudioEncoderPrivateData(p): the member initializers
InitPrivateData ==
    /\ encoder = "null"
    /\ encoder_ctx = NullCtx
    /\ format = DefaultFormat
    /\ encode_frame = NullFrame
    /\ reassignment = FALSE
    /\ trace = <<>>
    /\ codec_registered \in BOOLEAN
    /\ destroyed = FALSE

\* AudioEncoder(): no queue, no worker
Init ==
    /\ InitPrivateData
    /\ _queue = 0
    /\ qdata = [q \in Queues |-> <<>>]
    /\ _mutex = "none"
    /\ exit_flag = FALSE
    /\ wpc = "not_started"
    /\ q_reg = 0
    /\ pack = NoPacket
    /\ mpc = "idle"
    /\ m_arg = 0
    /\ in_dtor = "no"
    /\ build_reloads = FALSE
    /\ pushes = 0
    /\ redirects = 0

\* d_ptr->encode(packet), called directly on the driver
Encode ==
    /\ ~destroyed
    /\ Len(Calls(trace)) < MaxCalls
    /\ \E packet \in Formats \cup {NoPacket}, o \in Oracles :
          Store(encode(Log(PrivateData, "call", packet), packet, o))
    /\ UNCHANGED <<codec_registered, destroyed>>
    /\ UNCHANGED tvars

\* delete d_ptr
Destroy ==
    /\ ~destroyed
    /\ \E o \in Oracles : Store(DtorPrivateData(Log(PrivateData, "dtor", 0), o))
    /\ destroyed' = TRUE
    /\ UNCHANGED codec_registered
    /\ UNCHANGED tvars

Next == Encode \/ Destroy

Spec == Init /\ [][Next]_vars

\* ------------------------------------------------- AudioEncoder, threaded

\* AudioEncoder(queue): _queue(queue), start_thread()
ThreadInit ==
    /\ InitPrivateData
    /\ _queue = 1
    /\ qdata = [q \in Queues |-> <<>>]
    /\ _mutex = "none"
    /\ exit_flag = FALSE
    /\ wpc = "loop"
    /\ q_reg = 0
    /\ pack = NoPacket
    /\ mpc = "idle"
    /\ m_arg = 0
    /\ in_dtor = "no"
    /\ build_reloads \in BOOLEAN
    /\ pushes = 0
    /\ redirects = 0

\* the pointer a dereference of _queue goes through: the value loaded for the
\* preceding null test, or a second, unsynchronised load of _queue
Deref == IF build_reloads THEN _queue ELSE q_reg

\* the worker is in state RUNNING: in its run cycle with a queue attached
Running ==
    /\ wpc \in {"loop", "run", "wait", "while", "has_data", "lock", "get_next",
                "encode"}
    /\ _queue # 0

\* bool get_thread_pause_condition()
get_thread_pause_condition == _queue = 0

\* the worker's loop: stop, pause or run one cycle
WorkerLoop ==
    /\ wpc = "loop"
    /\ wpc' = IF exit_flag THEN "done"
              ELSE IF get_thread_pause_condition THEN "pause" ELSE "run"
    /\ UNCHANGED <<dvars, codec_registered, destroyed, _queue, qdata, _mutex,
                   exit_flag, q_reg, pack, mpc, m_arg, in_dtor, build_reloads,
                   pushes, redirects>>

\* on_thread_pause, but without the flush
on_thread_pause_no_flush ==
    /\ wpc = "pause"
    /\ wpc' = "suspended"
    /\ UNCHANGED <<dvars, codec_registered, destroyed, _queue, qdata, _mutex,
                   exit_flag, q_reg, pack, mpc, m_arg, in_dtor, build_reloads,
                   pushes, redirects>>

\* void on_thread_pause(): d_ptr->encode(nullptr), then the worker suspends
on_thread_pause ==
    /\ wpc = "pause"
    /\ \E o \in Oracles :
          Store(encode(Log(PrivateData, "call", NoPacket), NoPacket, o))
    /\ wpc' = "suspended"
    /\ UNCHANGED <<codec_registered, destroyed, _queue, qdata, _mutex,
                   exit_flag, q_reg, pack, mpc, m_arg, in_dtor, build_reloads,
                   pushes, redirects>>

\* the suspended worker is woken by a redirect to a queue or by exit_thread
WorkerResume ==
    /\ wpc = "suspended"
    /\ exit_flag \/ ~get_thread_pause_condition
    /\ wpc' = "loop"
    /\ UNCHANGED <<dvars, codec_registered, destroyed, _queue, qdata, _mutex,
                   exit_flag, q_reg, pack, mpc, m_arg, in_dtor, build_reloads,
                   pushes, redirects>>

\* on_thread_run: if(_queue == nullptr) return;
RunNullTest ==
    /\ wpc = "run"
    /\ q_reg' = _queue
    /\ wpc' = IF _queue = 0 THEN "loop" ELSE "wait"
    /\ UNCHANGED <<dvars, codec_registered, destroyed, _queue, qdata, _mutex,
                   exit_flag, pack, mpc, m_arg, in_dtor, build_reloads,
                   pushes, redirects>>

\* on_thread_run: _queue->wait_for_resource_push(100), a bounded wait
RunWait ==
    /\ wpc = "wait"
    /\ wpc' = IF Deref = 0 THEN "crashed" ELSE "while"
    /\ UNCHANGED <<dvars, codec_registered, destroyed, _queue, qdata, _mutex,
                   exit_flag, q_reg, pack, mpc, m_arg, in_dtor, build_reloads,
                   pushes, redirects>>

\* on_thread_run: while(_queue != nullptr && ...
RunWhileNullTest ==
    /\ wpc = "while"
    /\ q_reg' = _queue
    /\ wpc' = IF _queue = 0 THEN "loop" ELSE "has_data"
    /\ UNCHANGED <<dvars, codec_registered, destroyed, _queue, qdata, _mutex,
                   exit_flag, pack, mpc, m_arg, in_dtor, build_reloads,
                   pushes, redirects>>

\* on_thread_run: ... && _queue->has_data())
RunWhileHasData ==
    /\ wpc = "has_data"
    /\ wpc' = IF Deref = 0 THEN "crashed"
              ELSE IF qdata[Deref] # <<>> THEN "lock" ELSE "loop"
    /\ UNCHANGED <<dvars, codec_registered, destroyed, _queue, qdata, _mutex,
                   exit_flag, q_reg, pack, mpc, m_arg, in_dtor, build_reloads,
                   pushes, redirects>>

\* _get_next_packet, but without the lock_guard
GetNextNoLock ==
    /\ wpc = "lock"
    /\ wpc' = "get_next"
    /\ UNCHANGED <<dvars, codec_registered, destroyed, _queue, qdata, _mutex,
                   exit_flag, q_reg, pack, mpc, m_arg, in_dtor, build_reloads,
                   pushes, redirects>>

\* _get_next_packet: std::lock_guard<std::mutex> lk(_mutex)
GetNextLock ==
    /\ wpc = "lock"
    /\ _mutex = "none"
    /\ _mutex' = "worker"
    /\ wpc' = "get_next"
    /\ UNCHANGED <<dvars, codec_registered, destroyed, _queue, qdata,
                   exit_flag, q_reg, pack, mpc, m_arg, in_dtor, build_reloads,
                   pushes, redirects>>

\* _get_next_packet: the test and the pop, then the guard's release
_get_next_packet ==
    /\ wpc = "get_next"
    /\ IF _queue = 0 \/ qdata[_queue] = <<>>
       THEN pack' = NoPacket /\ UNCHANGED qdata
       ELSE /\ pack' = Head(qdata[_queue])
            /\ qdata' = [qdata EXCEPT ![_queue] = Tail(@)]
    /\ _mutex' = "none"
    /\ wpc' = "encode"
    /\ UNCHANGED <<dvars, codec_registered, destroyed, _queue, exit_flag,
                   q_reg, mpc, m_arg, in_dtor, build_reloads, pushes,
                   redirects>>

\* on_thread_run: d_ptr->encode(pack.get())
RunEncode ==
    /\ wpc = "encode"
    /\ \E o \in Oracles :
          Store(encode(Log(PrivateData, "call", pack), pack, o))
    /\ wpc' = "while"
    /\ UNCHANGED <<codec_registered, destroyed, _queue, qdata, _mutex,
                   exit_flag, q_reg, pack, mpc, m_arg, in_dtor, build_reloads,
                   pushes, redirects>>

on_thread_run ==
    \/ RunNullTest
    \/ RunWait
    \/ RunWhileNullTest
    \/ RunWhileHasData
    \/ GetNextLock
    \/ _get_next_packet
    \/ RunEncode

\* the owner calls set_input_queue(queue_or_null)
SetInputQueueCall ==
    /\ mpc = "idle"
    /\ redirects < MaxRedirects
    /\ \E q \in Queues \cup {0} : m_arg' = q
    /\ redirects' = redirects + 1
    /\ mpc' = "siq_lock"
    /\ UNCHANGED <<dvars, codec_registered, destroyed, _queue, qdata, _mutex,
                   exit_flag, wpc, q_reg, pack, in_dtor, build_reloads, pushes>>

\* ~AudioEncoder(): set_input_queue(nullptr) ...
DtorCall ==
    /\ mpc = "idle"
    /\ m_arg' = 0
    /\ in_dtor' = IF Running /\ qdata[_queue] # <<>> THEN "running" ELSE "other"
    /\ mpc' = "siq_lock"
    /\ UNCHANGED <<dvars, codec_registered, destroyed, _queue, qdata, _mutex,
                   exit_flag, wpc, q_reg, pack, build_reloads, pushes,
                   redirects>>

\* set_input_queue: take _mutex
SetInputQueueLock ==
    /\ mpc = "siq_lock"
    /\ _mutex = "none"
    /\ _mutex' = "owner"
    /\ mpc' = "siq_swap"
    /\ UNCHANGED <<dvars, codec_registered, destroyed, _queue, qdata,
                   exit_flag, wpc, q_reg, pack, m_arg, in_dtor, build_reloads,
                   pushes, redirects>>

\* set_input_queue: swap the reference, release _mutex
SetInputQueueSwap ==
    /\ mpc = "siq_swap"
    /\ _queue' = m_arg
    /\ _mutex' = "none"
    /\ mpc' = IF in_dtor # "no" THEN "exit_thread" ELSE "idle"
    /\ UNCHANGED <<dvars, codec_registered, destroyed, qdata, exit_flag, wpc,
                   q_reg, pack, m_arg, in_dtor, build_reloads, pushes,
                   redirects>>

\* ~AudioEncoder(): exit_thread() tells the worker to stop ...
ExitThreadSignal ==
    /\ mpc = "exit_thread"
    /\ exit_flag' = TRUE
    /\ mpc' = "join"
    /\ UNCHANGED <<dvars, codec_registered, destroyed, _queue, qdata, _mutex,
                   wpc, q_reg, pack, m_arg, in_dtor, build_reloads, pushes,
                   redirects>>

\* ... and joins it
ExitThreadJoin ==
    /\ mpc = "join"
    /\ wpc = "done"
    /\ mpc' = "delete"
    /\ UNCHANGED <<dvars, codec_registered, destroyed, _queue, qdata, _mutex,
                   exit_flag, wpc, q_reg, pack, m_arg, in_dtor, build_reloads,
                   pushes, redirects>>

\* ~AudioEncoder(): delete d_ptr
DtorDelete ==
    /\ mpc = "delete"
    /\ \E o \in Oracles : Store(DtorPrivateData(Log(PrivateData, "dtor", 0), o))
    /\ destroyed' = TRUE
    /\ mpc' = "end"
    /\ UNCHANGED <<codec_registered, _queue, qdata, _mutex, exit_flag, wpc,
                   q_reg, pack, m_arg, in_dtor, build_reloads, pushes,
                   redirects>>

\* the upstream producer pushes a frame into a queue
Push ==
    /\ pushes < MaxPush
    /\ \E q \in Queues, f \in PushFormats :
          qdata' = [qdata EXCEPT ![q] = Append(@, f)]
    /\ pushes' = pushes + 1
    /\ UNCHANGED <<dvars, codec_registered, destroyed, _queue, _mutex,
                   exit_flag, wpc, q_reg, pack, mpc, m_arg, in_dtor,
                   build_reloads, redirects>>

Worker == WorkerLoop \/ on_thread_pause \/ WorkerResume \/ on_thread_run
Owner  == SetInputQueueCall \/ DtorCall \/ SetInputQueueLock
             \/ SetInputQueueSwap \/ ExitThreadSignal \/ ExitThreadJoin
             \/ DtorDelete

ThreadNext == Worker \/ Owner \/ Push

SpecThread == ThreadInit /\ [][ThreadNext]_vars

\* the owner's steps inside a call it has made (it need not make a call)
OwnerProgress == SetInputQueueLock \/ SetInputQueueSwap \/ ExitThreadSignal
                    \/ ExitThreadJoin \/ DtorDelete

\* scheduling: every thread that can run eventually does; a thread waiting for
\* _mutex gets it if it is free again and again
FairSpecThread ==
    /\ SpecThread
    /\ WF_vars(Worker)
    /\ WF_vars(OwnerProgress)
    /\ SF_vars(SetInputQueueLock)
    /\ SF_vars(GetNextLock)

\* ------------------------------------------------------ reading the trace

IsWarning(ev) == ev.e \in {"WARNING Codec_encoder_not_found",
                           "WARNING Codec_codec_context_alloc_failed",
                           "WARNING Codec_codec_open_failed",
                           "WARNING FFMPEG"}
IsRecord(ev) == IsWarning(ev) \/ ev.e = "INFO Codec_encoder_init_success"
IsMarker(ev) == ev.e \in {"call", "dtor"}

Count(t, ev) == Cardinality({i \in 1 .. Len(t) : t[i] = ev})
CountIf(t, P(_)) == Cardinality({i \in 1 .. Len(t) : P(t[i])})

\* the positions of the encode(frame) calls, and of all encode calls
FrameCallAt == {i \in 1 .. Len(trace) :
                  trace[i].e = "call" /\ trace[i].a # NoPacket}
NullCallAt  == {i \in 1 .. Len(trace) : trace[i] = Ev("call", NoPacket)}
FrameCalls  == SelectSeq(trace,
                  LAMBDA ev : ev.e = "call" /\ ev.a # NoPacket)

\* what the call (or destructor) entered at position i did, up to its return
EndOf(i) == IF \E j \in (i + 1) .. Len(trace) : IsMarker(trace[j])
            THEN CHOOSE j \in (i + 1) .. Len(trace) :
                    /\ IsMarker(trace[j])
                    /\ \A k \in (i + 1) .. (j - 1) : ~IsMarker(trace[k])
            ELSE Len(trace) + 1
Seg(i) == SubSeq(trace, i + 1, EndOf(i) - 1)

\* the open_ctx of the encode(frame) call at position i failed
OpenFailed(i) ==
    \/ Count(Seg(i), Ev("avcodec_find_encoder_by_name", 0)) > 0
    \/ Count(Seg(i), Ev("avcodec_alloc_context3", 0)) > 0
    \/ Count(Seg(i), Ev("avcodec_open2", 0)) > 0
\* ... or it succeeded by opening a session
OpenedIn(i) == Count(Seg(i), Ev("avcodec_open2", 1)) > 0
\* the staging frame could not be allocated in the call at position i
FrameAllocFailed(i) ==
    Seg(i) # <<>> /\ Seg(i)[Len(Seg(i))] = Ev("av_frame_alloc", 0)
\* the call at position i reached the submission step with its argument
Submitted(i) == Count(Seg(i), Ev("submit", trace[i].a)) > 0

FirstFrameCall == CHOOSE i \in FrameCallAt : \A j \in FrameCallAt : i <= j
SameFormat == \A i, j \in FrameCallAt : trace[i].a = trace[j].a
Resolutions == Count(trace, Ev("avcodec_find_encoder_by_name", 1))
                 + Count(trace, Ev("avcodec_find_encoder_by_name", 0))
Activations == Count(trace, Ev("avcodec_open2", 1))
CtxAllocs   == Count(trace, Ev("avcodec_alloc_context3", 1))
CtxFrees    == Count(trace, Ev("avcodec_free_context", 0))

\* ------------------------------------------------------------ the claims

\* C1: when every frame passed to encode so far carries the same format and
\* the first open succeeded, the codec was resolved once and activated once,
\* and no call closed the session (only the destructor frees the context).
C1_OpenOnce ==
    (FrameCallAt # {} /\ SameFormat /\ OpenedIn(FirstFrameCall))
        => /\ Resolutions = 1
           /\ Activations = 1
           /\ CtxFrees = (IF destroyed THEN 1 ELSE 0)

\* C1 witness: a second frame of the same format reused the open session
C1_Witness ==
    /\ Len(FrameCalls) >= 2
    /\ SameFormat
    /\ OpenedIn(FirstFrameCall)
    /\ ~destroyed

\* the frames so far are a prefix of A, B, A with A # B
AlternatingABA ==
    /\ Len(FrameCalls) \in 1 .. 3
    /\ Len(FrameCalls) >= 2 => FrameCalls[1].a # FrameCalls[2].a
    /\ Len(FrameCalls) = 3 => FrameCalls[3].a = FrameCalls[1].a
NoOpenFailure == \A i \in FrameCallAt : ~OpenFailed(i)
ActivationAt == {i \in 1 .. Len(trace) : trace[i] = Ev("avcodec_open2", 1)}
FreeAt == {i \in 1 .. Len(trace) : trace[i] = Ev("avcodec_free_context", 0)}

\* C2: for frames A, B, A (A # B) whose opens all succeed, each frame
\* activates a session (three in total), every activation after the first
\* comes after the release of the handle opened before it, and the recorded
\* format is the format of the frame that triggered the last activation.
C2_ReopenOnBoundary ==
    (AlternatingABA /\ NoOpenFailure /\ ~destroyed)
        => /\ Activations = Len(FrameCalls)
           /\ \A i \in FrameCallAt : OpenedIn(i)
           /\ CtxFrees = Len(FrameCalls) - 1
           /\ \A i, j \in ActivationAt :
                 i < j => \E k \in FreeAt : i < k /\ k < j
           /\ format = FrameCalls[Len(FrameCalls)].a
           /\ encoder_ctx.opened

\* C2 witness: the three frames A, B, A have been encoded, all opens succeeding
C2_Witness ==
    /\ Len(FrameCalls) = 3
    /\ AlternatingABA
    /\ NoOpenFailure
    /\ ~destroyed

\* C3 (as claimed): every encode(frame) call whose open_ctx succeeds reaches
\* the submission step with its frame, unless the staging frame could not be
\* allocated. (Stated for the calls before which no open has failed, as in
\* the claim's queue [f1, f2, f3].)
C3_EveryFrameSubmitted ==
    \A i \in FrameCallAt :
        ( /\ \A k \in FrameCallAt : k <= i => ~OpenFailed(k)
          /\ ~FrameAllocFailed(i) )
        => Submitted(i)

\* C4 (as claimed): encode(nullptr) on an open session, after at least one
\* frame was submitted and all frames had the same format, reaches the
\* submission step with the end-of-stream signal.
C4_FlushReachesCodec ==
    \A i \in NullCallAt :
        ( /\ SameFormat
          /\ \E j \in FrameCallAt : j < i /\ Submitted(j)
          /\ \A j \in FrameCallAt : j < i => ~OpenFailed(j)
          /\ ~FrameAllocFailed(i) )
        => Submitted(i)

\* C5: encode(nullptr) while the handle is null does nothing: it leaves no
\* event (no record, no resolution, allocation or activation) and leaves the
\* handle, the recorded format, the staging frame and the flag unchanged.
C5_NullFlushIsNoop ==
    [][ ( /\ Len(trace') > Len(trace)
          /\ trace'[Len(trace) + 1] = Ev("call", NoPacket)
          /\ ~encoder_ctx.allocated )
        => /\ trace' = Append(trace, Ev("call", NoPacket))
           /\ UNCHANGED <<encoder, encoder_ctx, format, encode_frame,
                          reassignment>> ]_vars

\* C5 witness: encode(nullptr) has just returned and there is no session
C5_Witness ==
    /\ trace # <<>>
    /\ trace[Len(trace)] = Ev("call", NoPacket)
    /\ ~encoder_ctx.allocated
    /\ ~destroyed

\* the last thing that ran is an encode(frame) call whose open_ctx failed
LastCallFailedOpen ==
    \E i \in FrameCallAt : EndOf(i) = Len(trace) + 1 /\ OpenFailed(i)

\* C6 (as claimed): when open_ctx fails, the handle is null on return.
C6_FailedOpenLeavesClosed ==
    LastCallFailedOpen => ~encoder_ctx.allocated

\* C7 (as claimed): the encode(frame) call that follows an encode(frame) call
\* whose open failed makes a fresh open attempt: it resolves the codec again.
\* (Stated for frames whose format is not the default-constructed one, so
\* that the recorded format it can meet comes from a successful open.)
C7_RetryAfterFailure ==
    \A i, j \in FrameCallAt :
        ( /\ i < j
          /\ \A k \in FrameCallAt : ~(i < k /\ k < j)
          /\ OpenFailed(i)
          /\ trace[j].a # DefaultFormat )
        => CountIf(Seg(j), LAMBDA ev : ev.e = "avcodec_find_encoder_by_name") > 0

\* C8 (as claimed): a failed open_ctx emits exactly one record, a warning, and
\* the call does not reach the submission step.
C8_OneWarningPerFailure ==
    \A i \in FrameCallAt :
        OpenFailed(i)
        => /\ CountIf(Seg(i), IsRecord) = 1
           /\ CountIf(Seg(i), IsWarning) = 1
           /\ CountIf(Seg(i), LAMBDA ev : ev.e = "submit") = 0

\* C8 (amended): a failed open_ctx emits one warning when the codec is not
\* found or the context cannot be allocated, and two warnings after the info
\* record of _init_encoder when avcodec_open2 fails; the frame of the call is
\* not submitted.
C8_WarningsPerFailure ==
    \A i \in FrameCallAt :
        OpenFailed(i)
        => /\ CountIf(Seg(i), IsWarning) =
                 (IF Count(Seg(i), Ev("avcodec_open2", 0)) > 0 THEN 2 ELSE 1)
           /\ CountIf(Seg(i), IsRecord) =
                 (IF Count(Seg(i), Ev("avcodec_open2", 0)) > 0 THEN 3 ELSE 1)
           /\ ~Submitted(i)

\* C8 witness: each of the three kinds of failure has been seen
C8_Witness ==
    /\ \E i \in FrameCallAt :
          OpenFailed(i) /\ Count(Seg(i), Ev("avcodec_open2", 0)) = 1
    /\ \E i \in FrameCallAt :
          OpenFailed(i) /\ Count(Seg(i), Ev("avcodec_alloc_context3", 0)) = 1

\* C9 (as claimed): a destructor invoked while the worker is RUNNING and the
\* queue is not empty completes: until it has, some thread can take a step.
C9_DestructionCompletes ==
    in_dtor = "running" => (mpc = "end" \/ ENABLED ThreadNext)

\* C9 (as claimed), as a liveness property under fair scheduling
C9_DestructionTerminates == (in_dtor = "running") ~> (mpc = "end")

\* C10: once the destructor has completed, every codec context that was
\* allocated has been freed and the handle is null.
C10_NoSessionAfterDestruction ==
    mpc = "end" => /\ destroyed
                   /\ CtxAllocs = CtxFrees
                   /\ ~encoder_ctx.allocated

\* C10 witness: the destructor completed after two contexts were allocated,
\* one of them by an open whose activation failed
C10_Witness ==
    /\ mpc = "end"
    /\ CtxAllocs >= 2
    /\ Count(trace, Ev("avcodec_open2", 0)) >= 1
    /\ Count(trace, Ev("avcodec_open2", 1)) >= 1

\* ------------------------------------------------- the worker's claims

\* a frame was popped from a queue in this step
Popped == \E q \in Queues : Len(qdata'[q]) < Len(qdata[q])
\* frames popped so far
PopCount == pushes - (Len(qdata[1]) + Len(qdata[2]))
\* the worker dereferences _queue outside _mutex in this step (lines 304, 306)
UnlockedDeref == wpc \in {"wait", "has_data"} /\ wpc' # wpc

\* C13: get_next is called only inside _get_next_packet's lock hold, on the
\* attached queue, which that same step found non-null and non-empty; _queue
\* does not change while the worker holds _mutex.
C13_CheckAndPopAtomic ==
    /\ [][Popped => /\ wpc = "get_next"
                    /\ _mutex = "worker"
                    /\ _queue # 0
                    /\ qdata[_queue] # <<>>
                    /\ qdata' = [qdata EXCEPT ![_queue] = Tail(@)]
                    /\ pack' = Head(qdata[_queue])]_vars
    /\ [][_mutex = "worker" => _queue' = _queue]_vars

\* C13 witness: the worker popped a frame after the owner redirected the input
C13_Witness ==
    /\ wpc = "encode"
    /\ pack # NoPacket
    /\ redirects >= 1

\* C14 (as claimed): the worker never calls wait_for_resource_push or has_data
\* while _queue is null.
C14_GuardedDereference == [][UnlockedDeref => _queue # 0]_vars

NullCalls == Cardinality(NullCallAt)
OneFlush ==
    /\ Len(trace') > Len(trace)
    /\ trace'[Len(trace) + 1] = Ev("call", NoPacket)
    /\ Len(Calls(trace')) = Len(Calls(trace)) + 1

C20_RunCycleEncodesPops ==
    /\ wpc = "encode" => pack # NoPacket
    /\ Cardinality(FrameCallAt)
          = PopCount - (IF wpc = "encode" /\ pack # NoPacket THEN 1 ELSE 0)

\* ------------------------------------------------- the session's claims

ResolveAt == {i \in 1 .. Len(trace) :
                 trace[i].e = "avcodec_find_encoder_by_name"}
LastResolveOk ==
    /\ ResolveAt # {}
    /\ \E i \in ResolveAt : (\A j \in ResolveAt : j <= i) /\ trace[i].a = 1

\* C15 (as claimed): get_encoder_id returns zero as long as no session has
\* been opened successfully.
C15_IdZeroUntilOpened == Activations = 0 => get_encoder_id = 0

\* C15 (amended): get_encoder_id returns zero exactly when no codec is
\* resolved (encoder is null: no resolution yet, or the last one failed), and
\* the codec's id as soon as a resolution has succeeded, whether or not the
\* context allocation or the activation that followed succeeded.
C15_IdZeroUntilResolved == (get_encoder_id = 0) <=> ~LastResolveOk

\* C15 witness: the codec was resolved, no session was ever opened, and an
\* activation has failed
C15_Witness ==
    /\ Activations = 0
    /\ Count(trace, Ev("avcodec_open2", 0)) >= 1
    /\ get_encoder_id = AV_CODEC_ID_AAC

\* C16 (as claimed): when encode returns from the submission step, the flag
\* is clear and the staging frame carries the parameters of the session that
\* is open.
C16_SubmitNeverStale ==
    (trace # <<>> /\ trace[Len(trace)].e = "submit")
        => /\ ~reassignment
           /\ encoder_ctx.opened
           /\ encode_frame.nb_samples = encoder_ctx.frame_size
           /\ encode_frame.format = encoder_ctx.sample_fmt
           /\ encode_frame.channel_layout = encoder_ctx.channel_layout

\* the format of the frame whose encode call made the last activation
LastActivatedFormat ==
    LET i == CHOOSE i \in FrameCallAt :
                /\ OpenedIn(i)
                /\ \A j \in FrameCallAt : OpenedIn(j) => j <= i
    IN trace[i].a

\* C17 (as claimed): between encode calls a non-null handle is an activated
\* one, and the recorded format is that of the frame it was activated for.
C17_HandleImpliesActivated ==
    (~destroyed /\ encoder_ctx.allocated)
        => /\ encoder_ctx.opened
           /\ \E i \in FrameCallAt : OpenedIn(i)
           /\ format = LastActivatedFormat

\* contexts allocated and not yet freed before position k of the trace
LiveBefore(k) ==
    Count(SubSeq(trace, 1, k - 1), Ev("avcodec_alloc_context3", 1))
      - Count(SubSeq(trace, 1, k - 1), Ev("avcodec_free_context", 0))

\* C18: at every point at most one context is allocated and not freed, every
\* allocation is made with no context live, every release frees a live one,
\* and the handle is non-null exactly when a context is live.
C18_ReleaseBeforeAcquire ==
    /\ \A k \in 1 .. (Len(trace) + 1) : LiveBefore(k) \in {0, 1}
    /\ \A k \in 1 .. Len(trace) :
          /\ trace[k].e = "avcodec_alloc_context3" => LiveBefore(k) = 0
          /\ trace[k].e = "avcodec_free_context" => LiveBefore(k) = 1
    /\ encoder_ctx.allocated <=> LiveBefore(Len(trace) + 1) = 1

\* C18 witness: a session was released and another one opened after it
C18_Witness ==
    /\ CtxAllocs >= 2
    /\ CtxFrees >= 1
    /\ Activations >= 2
    /\ encoder_ctx.allocated

\* the session the call at position i found had something submitted to it
SubmittedToLiveSession(i) ==
    \E j \in 1 .. (i - 1) :
        /\ trace[j].e = "submit"
        /\ \A k \in (j + 1) .. (i - 1) : trace[k].e # "avcodec_free_context"
\* the call at position i released a session
Released(i) == Count(Seg(i), Ev("avcodec_free_context", 0)) > 0
FlushedIn(i) == Count(Seg(i), Ev("submit", NoPacket)) > 0

====
